---- MODULE Spec2Model ----
(***************************************************************************)
(* chatty-shell: the curses view (chatty_shell/frontend/view.py) and the   *)
(* presenter loop (chatty_shell/presenter/presenter.py) that feeds it over  *)
(* two multiprocessing queues.                                             *)
(*                                                                         *)
(* A text is a sequence of one-character strings.  "\n" is the newline and *)
(* "#" stands for the code-span delimiter of a message.                    *)
(***************************************************************************)
EXTENDS Integers, Sequences, FiniteSets, TLC

\* ---------------------------------------------------------------- bounds
MaxBatch == 2        \* key events collected by one poll
MaxInput == 1        \* Spec: longest input buffer
MaxSends == 2        \* Spec: human messages sent in one run
LongInput == 2       \* SpecTyping: longest input buffer
FewSends == 1        \* SpecTyping, SpecMalformed: human messages sent in one run

LayoutInput == 3     \* SpecLayout: longest input buffer

\* terminal sizes of a run
Heights == {7}
Widths == {24}

\* terminal sizes of the layout runs
LayoutHeights == {6, 7}
LayoutWidths == {20, 24, 83, 100}

\* ------------------------------------------------------------ arithmetic
Max(a, b) == IF a >= b THEN a ELSE b
Min(a, b) == IF a <= b THEN a ELSE b

\* ------------------------------------------------------- python strings
IsSpace(c) == c \in {" ", "\n"}

\* a chunk of whitespace only: chunk.strip() == ''
IsBlank(s) == \A i \in 1..Len(s) : IsSpace(s[i])

\* s.lstrip() and s.strip()
RECURSIVE LStrip(_)
LStrip(s) == IF s # <<>> /\ IsSpace(Head(s)) THEN LStrip(Tail(s)) ELSE s

RECURSIVE Strip(_)
Strip(s) ==
  LET l == LStrip(s) IN
  IF l # <<>> /\ IsSpace(l[Len(l)]) THEN Strip(SubSeq(l, 1, Len(l) - 1)) ELSE l

Last(s) == s[Len(s)]
Front(s) == SubSeq(s, 1, Len(s) - 1)

\* s[:n] for n >= 0
Take(s, n) == SubSeq(s, 1, Min(n, Len(s)))

\* s[n:] for n >= 0
Drop(s, n) == SubSeq(s, n + 1, Len(s))

\* s[2:-2]
Inner(s) == SubSeq(s, 3, Len(s) - 2)

\* s[-n:] of a list; python reads s[-0:] as the whole list
LastN(s, n) == IF n = 0 \/ n >= Len(s) THEN s ELSE SubSeq(s, Len(s) - n + 1, Len(s))

RECURSIVE Concat(_)
Concat(ss) == IF ss = <<>> THEN <<>> ELSE Head(ss) \o Concat(Tail(ss))

\* sep.join(ss)
RECURSIVE Join(_, _)
Join(ss, sep) ==
  IF ss = <<>> THEN <<>>
  ELSE IF Len(ss) = 1 THEN Head(ss)
  ELSE Head(ss) \o <<sep>> \o Join(Tail(ss), sep)

\* s.split(sep): always at least one piece
RECURSIVE Split(_, _)
Split(s, sep) ==
  IF s = <<>> THEN << <<>> >>
  ELSE LET rest == Split(Tail(s), sep) IN
       IF Head(s) = sep THEN << <<>> >> \o rest
       ELSE << <<Head(s)>> \o Head(rest) >> \o Tail(rest)

\* s.splitlines(): no piece for the empty text or after a final newline
SplitLines(s) ==
  LET p == Split(s, "\n") IN IF Last(p) = <<>> THEN Front(p) ELSE p

\* ------------------------------------------------------ textwrap.wrap
\* TextWrapper._split: maximal runs of whitespace and of non-whitespace
RECURSIVE Chunks(_)
Chunks(s) ==
  IF s = <<>> THEN <<>>
  ELSE LET rest == Chunks(Tail(s)) IN
       IF rest # <<>> /\ IsSpace(Head(Head(rest))) = IsSpace(Head(s))
       THEN << <<Head(s)>> \o Head(rest) >> \o Tail(rest)
       ELSE << <<Head(s)>> >> \o rest

\* the inner loop of TextWrapper._wrap_chunks: take chunks while they fit
RECURSIVE FillLine(_, _, _)
FillLine(chunks, cur, width) ==
  IF chunks # <<>> /\ Len(Concat(cur)) + Len(Head(chunks)) <= width
  THEN FillLine(Tail(chunks), Append(cur, Head(chunks)), width)
  ELSE [cur |-> cur, rest |-> chunks]

\* TextWrapper._wrap_chunks with drop_whitespace and break_long_words
RECURSIVE WrapChunks(_, _, _)
WrapChunks(chunks, width, lines) ==
  IF chunks = <<>> THEN lines
  ELSE LET c1 == IF IsBlank(Head(chunks)) /\ lines # <<>> THEN Tail(chunks) ELSE chunks
           f == FillLine(c1, <<>>, width)
           long == f.rest # <<>> /\ Len(Head(f.rest)) > width
           space_left == IF width < 1 THEN 1 ELSE width - Len(Concat(f.cur))
           cur2 == IF long THEN Append(f.cur, Take(Head(f.rest), space_left)) ELSE f.cur
           rest2 == IF long THEN << Drop(Head(f.rest), space_left) >> \o Tail(f.rest)
                    ELSE f.rest
           cur3 == IF cur2 # <<>> /\ IsBlank(Last(cur2)) THEN Front(cur2) ELSE cur2
       IN WrapChunks(rest2, width, IF cur3 # <<>> THEN Append(lines, Concat(cur3)) ELSE lines)

\* textwrap.wrap(para, width=width), for width > 0
TextWrap(para, width) == WrapChunks(Chunks(para), width, <<>>)

\* for para in text.split("\n"): lines.extend(textwrap.wrap(para, width) or [""])
RECURSIVE WrapParas(_, _)
WrapParas(paras, width) ==
  IF paras = <<>> THEN <<>>
  ELSE LET w == TextWrap(Head(paras), width) IN
       (IF w = <<>> THEN << <<>> >> ELSE w) \o WrapParas(Tail(paras), width)

WrapText(text, width) == WrapParas(Split(text, "\n"), width)

\* ------------------------------------------------------------ texts
\* keys 32..255 that the model types
Printable == {"a", "b", " "}

\* one command -> output mapping; items in insertion order
Mapping(items) == [dict |-> TRUE, items |-> items]
LsCall == Mapping(<< << <<"l", "s">>, <<"x", "\n", "y">> >> >>)
PwdCall == Mapping(<< << <<"p", "w", "d">>, <<>> >> >>)

\* an element of tool_calls that is not a mapping: one character of a string
CharItem(c) == [dict |-> FALSE, items |-> << << <<c>>, <<>> >> >>]

\* the toolCalls part of a payload, by its python shape
DictCalls(m) == [shape |-> "dict", val |-> m]
ListCalls(ms) == [shape |-> "list", val |-> ms]
NoneCalls == [shape |-> "none", val |-> <<>>]
StrCalls(s) == [shape |-> "str", val |-> [i \in 1..Len(s) |-> CharItem(s[i])]]

\* what Model.new_message returns: (sorted_tool_calls, final_message)
Payloads == { << DictCalls(LsCall), <<"#", "c", "#">> >>,
              << ListCalls(<<PwdCall, PwdCall>>), <<"b", "b", "b">> >> }

\* the same with tool calls that are neither a mapping nor a sequence of mappings
BadPayloads == { << NoneCalls, <<"b", "b", "b">> >>,
                 << StrCalls(<<"l", "s">>), <<"b", "b", "b">> >> }

\* --------------------------------------------------------------- state
VARIABLES
  height, width,          \* stdscr.getmaxyx() at _init_windows
  input_h, chat_h,        \* pane heights
  messages,               \* View.messages: <<text, who>>
  input_buffer,
  chat_offset, sidebar_offset,
  tool_calls,             \* View.tool_calls
  show_debug,
  last_chat_map,          \* the flattened lines of the last _draw_chat
  clipboard,              \* what pyperclip holds
  human_queue, human_read,  \* every put on the human queue; how many were taken
  ai_queue, ai_read,        \* every put on the ai queue; how many were taken
  pc, err,                \* position of the view in _main; the exception that ended it
  at_bottom, drained,     \* _drain_ai_queue: its local, and its loop iterations so far
  nkeys, pending, burst, key,  \* _handle_input: len(keys), keys left, burst, current key
  pres_pc, human_msg      \* Presenter.run: position and local

vars == << height, width, input_h, chat_h, messages, input_buffer, chat_offset,
           sidebar_offset, tool_calls, show_debug, last_chat_map, clipboard,
           human_queue, human_read, ai_queue, ai_read, pc, err, at_bottom, drained,
           nkeys, pending, burst, key, pres_pc, human_msg >>

\* ------------------------------------------------------------- geometry
\* mutant: a quarter of the width with no minimum
SidebarQuarter == width \div 4

\* self.sidebar_w = max(20, w // 4)
sidebar_w == Max(20, width \div 4)
chat_w == width - sidebar_w
chat_scroll_speed == 3

\* curses.newwin with ncols = 0 makes a window that reaches the right edge of the screen
WinCols(ncols, begin_x) == IF ncols = 0 THEN width - begin_x ELSE ncols

\* the windows: curses.newwin(nlines, ncols, begin_y, begin_x), then resize and mvwin
chat_win == [row |-> 0, col |-> 0, h |-> chat_h, w |-> WinCols(chat_w, 0)]
sidebar_win == [row |-> 0, col |-> chat_w, h |-> height, w |-> WinCols(sidebar_w, chat_w)]
input_win == [row |-> chat_h, col |-> 0, h |-> input_h, w |-> WinCols(chat_w, 0)]

\* ------------------------------------------------------------ flattening
\* one segment of a message: prose is word-wrapped, code is wrapped and framed
SegmentLines(seg, is_code, max_inner) ==
  IF is_code
  THEN LET w == WrapText(seg, max_inner) IN
       [i \in 1..Len(w) |-> << <<"|", " ">> \o w[i] \o <<" ", "|">>, TRUE >>]
  ELSE IF seg = <<>> THEN <<>>
  ELSE LET w == WrapText(seg, max_inner) IN [i \in 1..Len(w) |-> << w[i], FALSE >>]

\* segments alternate prose, code, prose, ...
RECURSIVE SegmentsLines(_, _, _)
SegmentsLines(segs, is_code, max_inner) ==
  IF segs = <<>> THEN <<>>
  ELSE SegmentLines(Head(segs), is_code, max_inner)
         \o SegmentsLines(Tail(segs), ~is_code, max_inner)

\* wrap_message(msg, max_inner, who): (text, is_code) lines, then one blank line
wrap_message(msg, max_inner, who) ==
  SegmentsLines(Split(msg, "#"), FALSE, max_inner) \o << << <<>>, FALSE >> >>

RECURSIVE FlattenMessages(_, _)
FlattenMessages(msgs, max_inner) ==
  IF msgs = <<>> THEN <<>>
  ELSE LET w == wrap_message(Head(msgs)[1], max_inner, Head(msgs)[2]) IN
       [i \in 1..Len(w) |-> << w[i][1], Head(msgs)[2], w[i][2] >>]
         \o FlattenMessages(Tail(msgs), max_inner)

\* View._flatten_chat
flatten_chat(msgs) == FlattenMessages(msgs, chat_w - 2)

Spaces(n) == [i \in 1..n |-> " "]

\* the lines of one cmd -> output item
ItemLines(item, max_inner) ==
  LET out == SplitLines(item[2]) IN
  << << Take(item[1], max_inner), "cmd" >> >>
    \o [i \in 1..Len(out) |->
          << Take(out[i], max_inner) \o Spaces(max_inner - Len(Take(out[i], max_inner))),
             "code" >>]
    \o << << Spaces(max_inner), "default" >> >>

RECURSIVE ItemsLines(_, _)
ItemsLines(items, max_inner) ==
  IF items = <<>> THEN <<>>
  ELSE ItemLines(Head(items), max_inner) \o ItemsLines(Tail(items), max_inner)

RECURSIVE FlattenCalls(_, _)
FlattenCalls(calls, max_inner) ==
  IF calls = <<>> THEN <<>>
  ELSE ItemsLines(Head(calls).items, max_inner) \o FlattenCalls(Tail(calls), max_inner)

\* call.items() raises AttributeError on an element that is not a mapping
FlattenRaises(calls) == \E i \in 1..Len(calls) : ~calls[i].dict

\* View._flatten_sidebar, when it does not raise
flatten_sidebar(calls) == FlattenCalls(calls, sidebar_w - 2)

\* View._max_chat_offset
max_chat_offset(msgs, ch) == Max(0, Len(flatten_chat(msgs)) - (ch - 2))

\* View._max_sidebar_offset
max_sidebar_offset(calls, ch) == Max(0, Len(flatten_sidebar(calls)) - (ch - 2))

\* ---------------------------------------------------------------- Init
NoCopy == [set |-> FALSE, text |-> <<>>]
Copied(text) == [set |-> TRUE, text |-> text]

\* View.__init__, _init_windows, Presenter.__init__ on a terminal of a given size
InitView ==
  /\ input_h = 3
  /\ chat_h = height - 3
  /\ messages = <<>>
  /\ input_buffer = <<>>
  /\ chat_offset = 0
  /\ sidebar_offset = 0
  /\ tool_calls = <<>>
  /\ show_debug = FALSE
  /\ last_chat_map = <<>>
  /\ clipboard = NoCopy
  /\ human_queue = <<>>
  /\ human_read = 0
  /\ ai_queue = <<>>
  /\ ai_read = 0
  /\ pc = "drain"
  /\ err = "none"
  /\ at_bottom = FALSE
  /\ drained = 0
  /\ nkeys = 0
  /\ pending = 0
  /\ burst = FALSE
  /\ key = "none"
  /\ pres_pc = "get"
  /\ human_msg = <<>>

Init == height \in Heights /\ width \in Widths /\ InitView

geometry == << height, width, input_h, chat_h >>
queues == << human_queue, human_read, ai_queue, ai_read >>
presenter == << pres_pc, human_msg >>
drain_locals == << at_bottom, drained >>
batch == << nkeys, burst >>

\* --------------------------------------------------- _drain_ai_queue
\* mutant: the offset jumps to the bottom whether or not the pane was there
AutoscrollAlways(was_at_bottom, offset, new_max) == new_max

\* if at_bottom: self.chat_offset = self._max_chat_offset()
Autoscroll(was_at_bottom, offset, new_max) == IF was_at_bottom THEN new_max ELSE offset

\* mutant: new records are put in front of the history
NormalizeCallsFront(calls_so_far, calls) ==
  IF calls.shape = "dict" THEN << calls.val >> \o calls_so_far
  ELSE calls.val \o calls_so_far

\* if isinstance(calls, dict): append else: extend
NormalizeCalls(calls_so_far, calls) ==
  IF calls.shape = "dict" THEN Append(calls_so_far, calls.val)
  ELSE calls_so_far \o calls.val

\* mutant: the message is inserted at the head of the list
PrependMessage(msgs, text, who) == << << text, who >> >> \o msgs

\* self.messages.append((text, who))
AppendMessage(msgs, text, who) == Append(msgs, << text, who >>)

\* at_bottom = self.chat_offset == self._max_chat_offset()
DrainBegin ==
  /\ pc = "drain"
  /\ at_bottom' = (chat_offset = max_chat_offset(messages, chat_h))
  /\ drained' = 0
  /\ pc' = "drain_loop"
  /\ key' = "none"
  /\ nkeys' = 0
  /\ burst' = FALSE
  /\ UNCHANGED << geometry, messages, input_buffer, chat_offset, sidebar_offset, tool_calls,
                  show_debug, last_chat_map, clipboard, queues, err, pending, presenter >>

\* mutant: an if in place of the while, the loop stops after one payload
QueueEmptyOrOne(q, read, n) == read = Len(q) \/ n >= 1

\* self.ai_queue.empty(), after n iterations of the loop
QueueEmpty(q, read, n) == read = Len(q)

\* mutant: the loop calls get() without testing the queue first
DrainCheckNoTest ==
  /\ pc = "drain_loop"
  /\ pc' = "drain_get"
  /\ UNCHANGED << geometry, messages, input_buffer, chat_offset, sidebar_offset, tool_calls,
                  show_debug, last_chat_map, clipboard, queues, err, drain_locals, pending,
                  batch, key, presenter >>

\* while not self.ai_queue.empty(): the queue is seen non-empty
DrainCheck ==
  /\ pc = "drain_loop"
  /\ ~QueueEmpty(ai_queue, ai_read, drained)
  /\ pc' = "drain_get"
  /\ UNCHANGED << geometry, messages, input_buffer, chat_offset, sidebar_offset, tool_calls,
                  show_debug, last_chat_map, clipboard, queues, err, drain_locals, pending,
                  batch, key, presenter >>

\* calls, ai_msg = self.ai_queue.get() and the body of the loop; get() blocks on
\* an empty queue, and extend(None) raises TypeError before the message is appended
DrainGet ==
  /\ pc = "drain_get"
  /\ ai_read < Len(ai_queue)
  /\ LET calls == ai_queue[ai_read + 1][1]
         ai_msg == ai_queue[ai_read + 1][2]
     IN IF calls.shape = "none"
        THEN /\ pc' = "crashed"
             /\ err' = "TypeError"
             /\ UNCHANGED << tool_calls, messages, drained >>
        ELSE /\ tool_calls' = NormalizeCalls(tool_calls, calls)
             /\ messages' = AppendMessage(messages, ai_msg, "ai")
             /\ drained' = drained + 1
             /\ pc' = "drain_loop"
             /\ err' = err
  /\ ai_read' = ai_read + 1
  /\ UNCHANGED << geometry, input_buffer, chat_offset, sidebar_offset, show_debug,
                  last_chat_map, clipboard, human_queue, human_read, ai_queue, at_bottom,
                  pending, batch, key, presenter >>

\* the queue is seen empty: autoscroll, then _main goes on to the debug or normal branch
DrainEnd ==
  /\ pc = "drain_loop"
  /\ QueueEmpty(ai_queue, ai_read, drained)
  /\ chat_offset' = Autoscroll(at_bottom, chat_offset, max_chat_offset(messages, chat_h))
  /\ pc' = IF show_debug THEN "debug" ELSE "draw"
  /\ UNCHANGED << geometry, messages, input_buffer, sidebar_offset, tool_calls, show_debug,
                  last_chat_map, clipboard, queues, err, drain_locals, pending, batch, key,
                  presenter >>

\* ------------------------------------------------------------ _draw_all
\* mutant: the input height is not capped
NewInputHUncapped(buf, h) == Len(WrapText(buf, chat_w - 3)) + 2

\* _recalculate_layout: the input height the buffer asks for
new_input_h(buf, h) == Min(Len(WrapText(buf, chat_w - 3)) + 2, h - 3)

\* mutant: the chat pane keeps the height it had at start
ChatHeightAtStart(h, ih) == h - 3

\* self.chat_h = self.height - self.input_h
new_chat_h(h, ih) == h - ih

\* min(max_off, max(0, offset))
Clamp(offset, total, visible) == Min(Max(0, total - visible), Max(0, offset))

\* _recalculate_layout, _draw_chat, _draw_sidebar, _draw_input, _refresh;
\* _draw_sidebar raises from _flatten_sidebar after the chat pane was drawn
DrawAll ==
  /\ pc = "draw"
  /\ IF chat_w - 3 <= 0
     THEN \* textwrap.wrap raises ValueError for a width below 1
          /\ pc' = "crashed"
          /\ err' = "ValueError"
          /\ UNCHANGED << input_h, chat_h, last_chat_map, chat_offset, sidebar_offset >>
     ELSE /\ input_h' = new_input_h(input_buffer, height)
          /\ chat_h' = IF input_h' = input_h THEN chat_h ELSE new_chat_h(height, input_h')
          /\ last_chat_map' = flatten_chat(messages)
          /\ chat_offset' = Clamp(chat_offset, Len(last_chat_map'), chat_h' - 2)
          /\ IF FlattenRaises(tool_calls)
             THEN /\ pc' = "crashed"
                  /\ err' = "AttributeError"
                  /\ UNCHANGED sidebar_offset
             ELSE /\ sidebar_offset' = Clamp(sidebar_offset, Len(flatten_sidebar(tool_calls)),
                                             height - 2)
                  /\ pc' = "poll"
                  /\ err' = err
  /\ at_bottom' = FALSE
  /\ drained' = 0
  /\ UNCHANGED << height, width, messages, input_buffer, tool_calls, show_debug, clipboard,
                  queues, pending, batch, key, presenter >>

\* ------------------------------------------------- debug overlay branch
\* _draw_debug; _handle_debug_toggle reads one key, F2 closes the overlay
DebugKeys == {"f2", "other", "nokey"}

DebugToggle ==
  /\ pc = "debug"
  /\ \E k \in DebugKeys : show_debug' = (IF k = "f2" THEN FALSE ELSE show_debug)
  /\ pc' = "drain"
  /\ at_bottom' = FALSE
  /\ drained' = 0
  /\ UNCHANGED << geometry, messages, input_buffer, chat_offset, sidebar_offset, tool_calls,
                  last_chat_map, clipboard, queues, err, pending, batch, key, presenter >>

\* --------------------------------------------------------- _handle_input
\* mutant: two keys do not yet make a burst
BurstOver2(n) == n > 2

\* burst = len(keys) > 1
Burst(n) == n > 1

\* the getch loop: n keys are pending; with none _handle_input returns
Poll ==
  /\ pc = "poll"
  /\ \E n \in 0..MaxBatch :
       /\ nkeys' = n
       /\ pending' = n
       /\ burst' = Burst(n)
       /\ pc' = IF n = 0 THEN "drain" ELSE "dispatch"
  /\ key' = "none"
  /\ UNCHANGED << geometry, messages, input_buffer, chat_offset, sidebar_offset, tool_calls,
                  show_debug, last_chat_map, clipboard, queues, err, drain_locals, presenter >>

\* one iteration of `for key in keys` that runs to its end
NextKey(k) ==
  /\ pc = "dispatch"
  /\ pending > 0
  /\ key' = k
  /\ pending' = pending - 1
  /\ pc' = IF pending = 1 THEN "drain" ELSE "dispatch"
  /\ err' = err

\* an iteration that an exception or exit() ends
EndsWith(k, how, exc) ==
  /\ pc = "dispatch"
  /\ pending > 0
  /\ key' = k
  /\ pending' = pending
  /\ pc' = how
  /\ err' = exc

\* mutant: the buffer is tested without strip()
SendGuardNonEmpty(buf) == buf # <<>>

\* if not self.input_buffer.strip(): return
SendGuard(buf) == Strip(buf) # <<>>

\* mutant: the put comes after the buffer was cleared
HumanPayloadAfterClear(buf) == <<>>

\* self.human_queue.put(self.input_buffer)
HumanPayload(buf) == buf

\* View._send_human
send_human(max_sends) ==
  IF SendGuard(input_buffer)
  THEN /\ Len(human_queue) < max_sends
       /\ LET was_at_bottom == chat_offset = max_chat_offset(messages, chat_h) IN
          /\ human_queue' = Append(human_queue, HumanPayload(input_buffer))
          /\ messages' = AppendMessage(messages, input_buffer, "human")
          /\ input_buffer' = <<>>
          /\ chat_offset' = Autoscroll(was_at_bottom, chat_offset,
                                       max_chat_offset(messages', chat_h))
  ELSE UNCHANGED << human_queue, messages, input_buffer, chat_offset >>

\* key in (KEY_ENTER, 10, 13)
KeyEnter(max_input, max_sends) ==
  /\ NextKey("enter")
  /\ IF burst
     THEN /\ Len(input_buffer) < max_input
          /\ input_buffer' = Append(input_buffer, " ")
          /\ UNCHANGED << human_queue, messages, chat_offset >>
     ELSE send_human(max_sends)
  /\ UNCHANGED << geometry, sidebar_offset, tool_calls, show_debug, last_chat_map, clipboard,
                  human_read, ai_queue, ai_read, drain_locals, batch, presenter >>

\* key in (KEY_BACKSPACE, 127, 8): self.input_buffer[:-1]
KeyBackspace ==
  /\ NextKey("backspace")
  /\ input_buffer' = IF input_buffer = <<>> THEN <<>> ELSE Front(input_buffer)
  /\ UNCHANGED << geometry, messages, chat_offset, sidebar_offset, tool_calls, show_debug,
                  last_chat_map, clipboard, queues, drain_locals, batch, presenter >>

\* 32 <= key < 256
KeyChar(max_input) ==
  /\ NextKey("char")
  /\ Len(input_buffer) < max_input
  /\ \E c \in Printable : input_buffer' = Append(input_buffer, c)
  /\ UNCHANGED << geometry, messages, chat_offset, sidebar_offset, tool_calls, show_debug,
                  last_chat_map, clipboard, queues, drain_locals, batch, presenter >>

\* key == curses.KEY_F2
KeyF2 ==
  /\ NextKey("f2")
  /\ show_debug' = TRUE
  /\ UNCHANGED << geometry, messages, input_buffer, chat_offset, sidebar_offset, tool_calls,
                  last_chat_map, clipboard, queues, drain_locals, batch, presenter >>

\* any other key code (below 32 or from 256 on) falls through every test
KeyOther ==
  /\ NextKey("other")
  /\ UNCHANGED << geometry, messages, input_buffer, chat_offset, sidebar_offset, tool_calls,
                  show_debug, last_chat_map, clipboard, queues, drain_locals, batch,
                  presenter >>

\* mutant: Escape is a key like any other that no test matches
KeyEscIgnored ==
  /\ NextKey("esc")
  /\ UNCHANGED << geometry, messages, input_buffer, chat_offset, sidebar_offset, tool_calls,
                  show_debug, last_chat_map, clipboard, queues, drain_locals, batch,
                  presenter >>

\* key == 27: exit()
KeyEsc ==
  /\ EndsWith("esc", "exited", err)
  /\ UNCHANGED << geometry, messages, input_buffer, chat_offset, sidebar_offset, tool_calls,
                  show_debug, last_chat_map, clipboard, queues, drain_locals, batch,
                  presenter >>

\* --------------------------------------------------------- _handle_mouse
Buttons == {"wheel_up", "wheel_down", "middle"}
\* one column of the chat pane and one of the sidebar
MouseCols == {0, chat_w}
MouseRows == 0..(height - 1)

\* rows for the wheel: the first and last of the chat pane, and of the rows below it
WheelRows == {0, chat_h - 1, chat_h, height - 1}

InChatArea(mx, my) == 0 <= my /\ my < chat_h /\ 0 <= mx /\ mx < chat_w
InSidebarArea(mx, my) == 0 <= my /\ my < chat_h /\ chat_w <= mx /\ mx < chat_w + sidebar_w

\* line_idx = my - 1 + self.chat_offset
LineIdx(my, offset) == my - 1 + offset

\* python's tuple[bool]: False is 0, True is 1
BoolIndex(b) == IF b THEN 1 ELSE 0

\* msg_idx = self.last_chat_map[line_idx][2]
ClickedMsgIdx(map, line_idx) == BoolIndex(map[line_idx + 1][3])

\* copy_to_clipboard(self.messages[msg_idx][0])
CopiedMessage(msgs, msg_idx) == msgs[msg_idx + 1][1]

\* a wheel event: the offsets after it
WheelChat(b, offset, msgs, ch) ==
  IF b = "wheel_up" THEN Max(0, offset - chat_scroll_speed)
  ELSE Min(max_chat_offset(msgs, ch), offset + chat_scroll_speed)

WheelSidebar(b, offset, calls, ch) ==
  IF b = "wheel_up" THEN Max(0, offset - chat_scroll_speed)
  ELSE Min(max_sidebar_offset(calls, ch), offset + chat_scroll_speed)

\* the event and the frame of a mouse key
MouseFrame ==
  UNCHANGED << geometry, messages, input_buffer, tool_calls, show_debug, last_chat_map,
               queues, drain_locals, batch, presenter >>

\* curses.getmouse() raises curses.error: return
MouseNone ==
  /\ NextKey("mouse")
  /\ MouseFrame
  /\ UNCHANGED << chat_offset, sidebar_offset, clipboard >>

\* BUTTON4_PRESSED / BUTTON5_PRESSED over the chat or the sidebar area; elsewhere nothing
MouseWheel(mx, my, b) ==
  /\ b \in {"wheel_up", "wheel_down"}
  /\ IF InChatArea(mx, my)
     THEN /\ NextKey("mouse")
          /\ chat_offset' = WheelChat(b, chat_offset, messages, chat_h)
          /\ UNCHANGED sidebar_offset
     ELSE IF InSidebarArea(mx, my)
     THEN IF b = "wheel_down" /\ FlattenRaises(tool_calls)
          THEN /\ EndsWith("mouse", "crashed", "AttributeError")
               /\ UNCHANGED << chat_offset, sidebar_offset >>
          ELSE /\ NextKey("mouse")
               /\ sidebar_offset' = WheelSidebar(b, sidebar_offset, tool_calls, chat_h)
               /\ UNCHANGED chat_offset
     ELSE /\ NextKey("mouse")
          /\ UNCHANGED << chat_offset, sidebar_offset >>
  /\ MouseFrame
  /\ UNCHANGED clipboard

\* BUTTON2_PRESSED: over the chat area a line in range is copied; the comprehension
\* over last_chat_map unpacks four names from a 3-tuple, which raises ValueError
MouseMiddle(mx, my) ==
  /\ LET line_idx == LineIdx(my, chat_offset) IN
     IF InChatArea(mx, my) /\ 0 <= line_idx /\ line_idx < Len(last_chat_map)
     THEN IF last_chat_map[line_idx + 1][3]
          THEN /\ EndsWith("mouse", "crashed", "ValueError")
               /\ UNCHANGED clipboard
          ELSE /\ NextKey("mouse")
               /\ clipboard' = Copied(CopiedMessage(messages,
                                                    ClickedMsgIdx(last_chat_map, line_idx)))
     ELSE /\ NextKey("mouse")
          /\ UNCHANGED clipboard
  /\ MouseFrame
  /\ UNCHANGED << chat_offset, sidebar_offset >>

\* key == curses.KEY_MOUSE
KeyMouse ==
  \/ MouseNone
  \/ \E mx \in MouseCols, my \in WheelRows, b \in Buttons \ {"middle"} : MouseWheel(mx, my, b)
  \/ \E mx \in MouseCols, my \in MouseRows : MouseMiddle(mx, my)

\* ------------------------------------------------------- Presenter.run
\* mutant: the presenter takes the newest message of the queue, not the oldest
PresenterGetNewest ==
  /\ pres_pc = "get"
  /\ human_read < Len(human_queue)
  /\ human_msg' = human_queue[Len(human_queue)]
  /\ human_read' = human_read + 1
  /\ pres_pc' = "reply"
  /\ UNCHANGED << geometry, messages, input_buffer, chat_offset, sidebar_offset, tool_calls,
                  show_debug, last_chat_map, clipboard, human_queue, ai_queue, ai_read, pc,
                  err, drain_locals, pending, batch, key >>

\* human_msg = self.human_queue.get(): blocks until a message is there
PresenterGet ==
  /\ pres_pc = "get"
  /\ human_read < Len(human_queue)
  /\ human_msg' = human_queue[human_read + 1]
  /\ human_read' = human_read + 1
  /\ pres_pc' = "reply"
  /\ UNCHANGED << geometry, messages, input_buffer, chat_offset, sidebar_offset, tool_calls,
                  show_debug, last_chat_map, clipboard, human_queue, ai_queue, ai_read, pc,
                  err, drain_locals, pending, batch, key >>

\* self.model.new_message(human_msg); self.ai_queue.put((sorted_calls, ai_msg))
PresenterReply(replies) ==
  /\ pres_pc = "reply"
  /\ \E p \in replies : ai_queue' = Append(ai_queue, p)
  /\ pres_pc' = "get"
  /\ UNCHANGED << geometry, messages, input_buffer, chat_offset, sidebar_offset, tool_calls,
                  show_debug, last_chat_map, clipboard, human_queue, human_read, ai_read, pc,
                  err, drain_locals, pending, batch, key, human_msg >>

PresenterPut == PresenterReply(Payloads)
PresenterPutMalformed == PresenterReply(BadPayloads)

\* ------------------------------------------------------- specifications
\* one step of View._main
ViewStep(max_input, max_sends) ==
  \/ DrainBegin \/ DrainCheck \/ DrainGet \/ DrainEnd
  \/ DrawAll \/ DebugToggle
  \/ Poll
  \/ KeyMouse \/ KeyF2 \/ KeyEnter(max_input, max_sends) \/ KeyBackspace \/ KeyEsc
  \/ KeyChar(max_input) \/ KeyOther

\* the agent answers with tool calls of the documented shapes
Next == ViewStep(MaxInput, MaxSends) \/ PresenterGet \/ PresenterPut

Spec == Init /\ [][Next]_vars

\* the same system with longer input and fewer sends
NextTyping == ViewStep(LongInput, FewSends) \/ PresenterGet \/ PresenterPut

SpecTyping == Init /\ [][NextTyping]_vars

\* the agent may also answer with tool calls of another shape
NextMalformed ==
  ViewStep(MaxInput, FewSends) \/ PresenterGet \/ PresenterPut \/ PresenterPutMalformed

SpecMalformed == Init /\ [][NextMalformed]_vars

\* the view alone on terminals of several sizes: typing, erasing and sending, while
\* the agent has not answered yet
InitLayout == height \in LayoutHeights /\ width \in LayoutWidths /\ InitView

NextLayout ==
  \/ DrainBegin \/ DrainEnd \/ DrawAll \/ Poll
  \/ KeyEnter(LayoutInput, FewSends) \/ KeyBackspace \/ KeyEsc \/ KeyChar(LayoutInput)

SpecLayout == InitLayout /\ [][NextLayout]_vars

\* the same system as SpecTyping with a user who never turns the wheel
KeyMouseNoWheel ==
  \/ MouseNone
  \/ \E mx \in MouseCols, my \in MouseRows : MouseMiddle(mx, my)

NextNoWheel ==
  \/ DrainBegin \/ DrainCheck \/ DrainGet \/ DrainEnd
  \/ DrawAll \/ DebugToggle
  \/ Poll
  \/ KeyMouseNoWheel \/ KeyF2 \/ KeyEnter(LongInput, FewSends) \/ KeyBackspace \/ KeyEsc
  \/ KeyChar(LongInput) \/ KeyOther
  \/ PresenterGet \/ PresenterPut

SpecNoWheel == Init /\ [][NextNoWheel]_vars

\* ------------------------------------------------- what the claims read
\* maxOffset = max(0, totalLines - visibleRows)
MaxOffset(total, visible) == Max(0, total - visible)

\* the chat pane: its flattened lines and the rows that show them
ChatLines == Len(flatten_chat(messages))
ChatRows == chat_h - 2

\* the sidebar: its flattened lines and the rows that show them
SidebarLines == Len(flatten_sidebar(tool_calls))
SidebarRows == height - 2

\* the texts of the messages of one author, in order
RECURSIVE TextsOf(_, _)
TextsOf(msgs, who) ==
  IF msgs = <<>> THEN <<>>
  ELSE (IF Head(msgs)[2] = who THEN << Head(msgs)[1] >> ELSE <<>>) \o TextsOf(Tail(msgs), who)

IsPrefix(s, t) == Len(s) <= Len(t) /\ SubSeq(t, 1, Len(s)) = s

\* the view dispatches one key of the batch, and that key is Enter
EnterStep == pc = "dispatch" /\ pending' = pending - 1 /\ key' = "enter"

\* _send_human appends a message
SendStep == EnterStep /\ Len(messages') = Len(messages) + 1

\* the drain loop sees the queue empty and returns
DrainEndStep == pc = "drain_loop" /\ pc' \in {"draw", "debug"}

\* a step inside the drain loop
InDrainLoop == pc \in {"drain_loop", "drain_get"} /\ pc' \in {"drain_loop", "drain_get"}

\* the Message Store when the running drain began
MessagesBeforeDrain == SubSeq(messages, 1, Len(messages) - drained)

\* ------------------------------------------------------------------ C1
\* C1: in every reachable state the chat offset and the sidebar offset each lie in
\* 0 .. max(0, totalLines - visibleRows) of their pane's current content and geometry.
C1_OffsetsInRange ==
  /\ 0 <= chat_offset /\ chat_offset <= MaxOffset(ChatLines, ChatRows)
  /\ 0 <= sidebar_offset /\ sidebar_offset <= MaxOffset(SidebarLines, SidebarRows)

\* ------------------------------------------------------------------ C2
\* pinned before -> pinned after; scrolled up before -> offset unchanged
PinRule(before, max_before, after, max_after) ==
  /\ before = max_before => after = max_after
  /\ before < max_before => after = before

\* C2: an append of N >= 1 messages by a send or by a drain keeps a chat pane that was
\* at maxOffset at the new maxOffset, and leaves a lower offset unchanged.
C2_Autoscroll ==
  /\ [][SendStep => PinRule(chat_offset, MaxOffset(ChatLines, ChatRows),
                            chat_offset', MaxOffset(Len(flatten_chat(messages')), chat_h' - 2))]_vars
  /\ [][InDrainLoop => chat_offset' = chat_offset]_vars
  /\ [][DrainEndStep /\ drained >= 1 =>
          PinRule(chat_offset,
                  MaxOffset(Len(flatten_chat(MessagesBeforeDrain)), ChatRows),
                  chat_offset', MaxOffset(Len(flatten_chat(messages')), chat_h' - 2))]_vars

\* a drain has just appended two messages to a pinned pane, which is pinned below offset 0
C2_Witness ==
  /\ pc \in {"draw", "debug"}
  /\ drained = 2
  /\ MaxOffset(Len(flatten_chat(MessagesBeforeDrain)), ChatRows) < MaxOffset(ChatLines, ChatRows)
  /\ chat_offset = MaxOffset(ChatLines, ChatRows)

\* ------------------------------------------------------------------ C3
\* C3: a single Enter on a buffer that is non-empty after trimming puts the buffer on the
\* human channel, appends it as a Human message and clears the buffer; the Human messages
\* of the store always equal the payloads put on the human channel, in order.
C3_Send ==
  /\ [](TextsOf(messages, "human") = human_queue)
  /\ [][EnterStep /\ nkeys = 1 /\ Strip(input_buffer) # <<>> =>
          /\ human_queue' = Append(human_queue, input_buffer)
          /\ messages' = Append(messages, << input_buffer, "human" >>)
          /\ input_buffer' = <<>>]_vars

\* the second of two different messages was sent by the Enter of this tick
C3_Witness ==
  /\ pc = "drain" /\ key = "enter" /\ nkeys = 1
  /\ input_buffer = <<>>
  /\ Len(human_queue) = 2 /\ human_queue[1] # human_queue[2]
  /\ Last(messages) = << human_queue[2], "human" >>
  /\ Len(last_chat_map) < ChatLines

\* ------------------------------------------------------------------ C4
NoBlankPayload == \A i \in 1..Len(human_queue) : Strip(human_queue[i]) # <<>>

\* C4 as stated: any Enter on an empty or whitespace-only buffer changes neither the
\* human channel, the store, the buffer nor the offsets; no payload is blank.
C4_EnterOnBlank ==
  /\ []NoBlankPayload
  /\ [][EnterStep /\ Strip(input_buffer) = <<>> =>
          UNCHANGED << human_queue, messages, input_buffer, chat_offset,
                       sidebar_offset >>]_vars

\* C4 amended: an Enter that is the only event of its poll, on an empty or
\* whitespace-only buffer, changes neither the human channel, the store, the buffer nor
\* the offsets; no payload is blank.
C4_EmptySend ==
  /\ []NoBlankPayload
  /\ [][EnterStep /\ nkeys = 1 /\ Strip(input_buffer) = <<>> =>
          UNCHANGED << human_queue, messages, input_buffer, chat_offset,
                       sidebar_offset >>]_vars

\* a single Enter has just left a whitespace-only buffer as it was
C4_Witness ==
  /\ pc = "drain" /\ key = "enter" /\ nkeys = 1
  /\ input_buffer = << " " >>
  /\ human_queue = <<>> /\ messages = <<>>

\* ------------------------------------------------------------------ C5
\* C5: in a poll of more than one event every dispatched Enter appends one space to the
\* buffer and sends nothing.
C5_BurstEnter ==
  [][EnterStep /\ nkeys > 1 =>
       /\ input_buffer' = Append(input_buffer, " ")
       /\ UNCHANGED << human_queue, messages >>]_vars

\* the first key of a burst was Enter, on a buffer that a single Enter would have sent
C5_Witness ==
  /\ pc = "dispatch" /\ key = "enter" /\ nkeys > 1 /\ pending = nkeys - 1
  /\ input_buffer = << "a", " " >>
  /\ human_queue = <<>>

\* ------------------------------------------------------------------ C6
\* the records a payload's toolCalls stand for, in order
RecordsOf(calls) == IF calls.shape = "dict" THEN << calls.val >> ELSE calls.val

RECURSIVE AllRecords(_)
AllRecords(payloads) ==
  IF payloads = <<>> THEN <<>>
  ELSE RecordsOf(Head(payloads)[1]) \o AllRecords(Tail(payloads))

\* the payloads the view has taken from the agent->view channel
TakenPayloads == SubSeq(ai_queue, 1, ai_read)

\* C6: the tool-call history is the records of the taken payloads, in the order
\* received, nothing dropped or merged; the AI messages of the store are the response
\* texts of the taken payloads, one each, in order.
C6_Normalized ==
  /\ tool_calls = AllRecords(TakenPayloads)
  /\ TextsOf(messages, "ai") = [i \in 1..ai_read |-> TakenPayloads[i][2]]

\* one drain took a sequence payload with two equal records and then a mapping payload
C6_Witness ==
  /\ pc = "drain_loop" /\ drained = 2 /\ ai_read = 2
  /\ ai_queue[1][1].shape = "list" /\ Len(ai_queue[1][1].val) = 2
  /\ ai_queue[2][1].shape = "dict"
  /\ Len(tool_calls) = 3

\* ------------------------------------------------------------------ C7
\* the view takes one payload from the agent->view channel
GetStep == pc = "drain_get" /\ ai_read' = ai_read + 1

\* C7: a payload whose toolCalls is neither a mapping nor a sequence of mappings leaves
\* the tool-call history unchanged, still appends its AI message, and does not end the loop.
C7_MalformedAsEmpty ==
  [][GetStep /\ ai_queue[ai_read + 1][1].shape \notin {"dict", "list"} =>
       /\ tool_calls' = tool_calls
       /\ messages' = Append(messages, << ai_queue[ai_read + 1][2], "ai" >>)
       /\ pc' # "crashed"]_vars

\* ------------------------------------------------------------------ C8
\* C8: every step leaves the message list and the tool-call history as prefixes of
\* their new values.
C8_AppendOnly ==
  [][IsPrefix(messages, messages') /\ IsPrefix(tool_calls, tool_calls')]_vars

\* both lists have grown by sends and by drains
C8_Witness ==
  /\ Len(TextsOf(messages, "human")) = 2
  /\ Len(TextsOf(messages, "ai")) = 2
  /\ messages[1][2] = "human" /\ messages[2][2] = "ai"
  /\ Len(tool_calls) >= 3

\* ----------------------------------------------------------- C9 and C10
\* the index of the message whose wrapped lines include line idx (both from 0)
RECURSIVE SourceIndex(_, _, _)
SourceIndex(msgs, max_inner, idx) ==
  LET n == Len(wrap_message(Head(msgs)[1], max_inner, Head(msgs)[2])) IN
  IF idx < n THEN 0 ELSE 1 + SourceIndex(Tail(msgs), max_inner, idx - n)

\* the code-tagged lines of one message without their frames, joined by newlines
CodeTextOf(msg, max_inner) ==
  LET code == SelectSeq(wrap_message(msg[1], max_inner, msg[2]), LAMBDA l : l[2]) IN
  Join([i \in 1..Len(code) |-> Inner(code[i][1])], "\n")

\* what a click that does nothing leaves alone
ClickFrame ==
  /\ pc' # "crashed"
  /\ UNCHANGED << clipboard, messages, input_buffer, chat_offset, sidebar_offset,
                  tool_calls, human_queue, ai_queue, show_debug >>

\* C9: a middle-click on chat row r maps to line r - 1 + offset; on a non-code line
\* (one that shows text of a message) it copies the unwrapped text of the message that
\* line belongs to; out of range it does nothing.
C9_ClickMapping ==
  [][\A my \in 0..(chat_h - 1) :
       MouseMiddle(0, my) =>
         LET idx == my - 1 + chat_offset IN
         IF 0 <= idx /\ idx < Len(last_chat_map)
         THEN (~last_chat_map[idx + 1][3] /\ last_chat_map[idx + 1][1] # <<>>) =>
                clipboard' = Copied(messages[SourceIndex(messages, chat_w - 2, idx) + 1][1])
         ELSE ClickFrame]_vars

\* C10: a middle-click on a code-tagged line copies the inner text of all code-tagged
\* lines of the same message, joined by newlines, raises nothing and changes nothing else.
C10_CodeCopy ==
  [][\A my \in 0..(chat_h - 1) :
       LET idx == my - 1 + chat_offset IN
       ( /\ MouseMiddle(0, my)
         /\ 0 <= idx /\ idx < Len(last_chat_map)
         /\ last_chat_map[idx + 1][3] ) =>
         /\ pc' # "crashed"
         /\ clipboard' = Copied(CodeTextOf(messages[SourceIndex(messages, chat_w - 2, idx) + 1],
                                           chat_w - 2))
         /\ UNCHANGED << messages, input_buffer, chat_offset, sidebar_offset, tool_calls,
                         human_queue, ai_queue, show_debug >>]_vars

\* ------------------------------------------------------------------ C11
\* the view handles one key or mouse event: of a batch, or the one key of the debug branch
EventStep ==
  /\ pc \in {"dispatch", "debug"}
  /\ human_read' = human_read
  /\ ai_queue' = ai_queue

\* C11: while the debug flag is set no key or mouse event changes the input buffer, the
\* scroll offsets, the Message Store or the human channel, and none ends the process;
\* this covers the events that follow the toggle key in the same batch.
C11_DebugExclusive ==
  [][show_debug /\ EventStep =>
       /\ UNCHANGED << input_buffer, chat_offset, sidebar_offset, messages, human_queue >>
       /\ pc' \notin {"exited", "crashed"}]_vars

\* ------------------------------------------------------------------ C12
\* the state a render reads: the drain has returned and _draw_all or _draw_debug is next
AtRender == pc \in {"draw", "debug"}

\* C12: the drain returns only when the agent->view channel is empty; the channel is
\* first-in first-out and only the drain takes from it, so every payload that was in it
\* when the tick began has been taken before the render; and what a render reads holds,
\* for every payload taken, both its tool-call records and its AI message.
C12_DrainBeforeRender ==
  /\ [][DrainEndStep => ai_read = Len(ai_queue) /\ ai_read' = ai_read]_vars
  /\ [][IsPrefix(ai_queue, ai_queue') /\ ai_read' >= ai_read]_vars
  /\ [][AtRender => ai_read' = ai_read]_vars
  /\ [](AtRender =>
          /\ tool_calls = AllRecords(TakenPayloads)
          /\ TextsOf(messages, "ai") = [i \in 1..ai_read |-> TakenPayloads[i][2]])

\* a render is about to show two payloads that one drain took from the channel
C12_Witness ==
  /\ pc = "draw" /\ drained = 2
  /\ ai_read = 2 /\ Len(ai_queue) = 2
  /\ Len(TextsOf(messages, "ai")) = 2

\* ------------------------------------------------------------------ C13
\* C13: the sidebar is max(20, floor(width / 4)) columns wide (25 of 100) and the chat and
\* input panes take the rest; chat and input start at column 0 with the same width, and
\* the sidebar starts at the column where the chat pane ends.
C13_Widths ==
  /\ width < 80 => sidebar_w = 20
  /\ width >= 80 => 4 * sidebar_w <= width /\ width < 4 * sidebar_w + 4
  /\ chat_w = width - sidebar_w
  /\ width = 100 => sidebar_w = 25 /\ chat_w = 75
  /\ sidebar_win.w = sidebar_w
  /\ input_win.w = chat_win.w
  /\ chat_win.col = 0 /\ input_win.col = 0
  /\ sidebar_win.col = chat_w

\* a terminal 100 columns wide has been drawn
C13_Witness == width = 100 /\ pc = "poll" /\ sidebar_win.w = 25 /\ input_buffer # <<>>

\* ------------------------------------------------------------------ C14
\* _draw_all runs _recalculate_layout
LayoutStep == pc = "draw" /\ pc' \notin {"draw", "crashed"}

\* C14: after a layout recomputation the input pane is min(wrapped lines + 2, height - 3)
\* rows high, the chat pane takes the other rows, and the chat pane has at least one
\* content row.
C14_InputHeight ==
  [][LayoutStep =>
       /\ input_h' = Min(Len(WrapText(input_buffer, chat_w - 3)) + 2, height - 3)
       /\ chat_h' = height - input_h'
       /\ chat_h' - 2 >= 1]_vars

\* the cap was reached: the buffer asks for more rows than the input pane got
C14_Witness ==
  /\ pc = "poll"
  /\ Len(WrapText(input_buffer, chat_w - 3)) + 2 > height - 3
  /\ input_h = height - 3 /\ input_h > 3

\* ------------------------------------------------------------------ C15
\* the cell at row y and column x, numbered row by row
Cell(y, x) == y * width + x

\* the cells of a window
Cells(win) ==
  { Cell(y, x) : y \in win.row..(win.row + win.h - 1), x \in win.col..(win.col + win.w - 1) }

\* the cells of the terminal
Grid == { Cell(y, x) : y \in 0..(height - 1), x \in 0..(width - 1) }

\* the three panes do not overlap and together cover the terminal
Partition ==
  /\ Cells(chat_win) \cap Cells(input_win) = {}
  /\ Cells(chat_win) \cap Cells(sidebar_win) = {}
  /\ Cells(input_win) \cap Cells(sidebar_win) = {}
  /\ Cells(chat_win) \cup Cells(input_win) \cup Cells(sidebar_win) = Grid

EscStep == EventStep /\ pc = "dispatch" /\ key' = "esc"

\* C16: an Escape dispatched in normal mode ends the view at that event, with no
\* exception (exit status 0) and no other change; once ended the view takes no further
\* event of the batch and no further tick, and the Message Store and the human channel
\* stay as they are.
C16_EscapeQuits ==
  /\ [][EscStep /\ ~show_debug =>
          /\ pc' = "exited" /\ err' = "none"
          /\ pending' = pending
          /\ UNCHANGED << messages, human_queue, input_buffer, chat_offset, sidebar_offset,
                          tool_calls >>]_vars
  /\ [][pc = "exited" =>
          UNCHANGED << pc, err, pending, ai_read, messages, human_queue, input_buffer,
                       chat_offset, sidebar_offset, tool_calls, show_debug, clipboard,
                       last_chat_map >>]_vars

\* Escape was the first of two events, after a message was sent and answered; the agent
\* went on to answer a second message that the ended view never takes
C16_Witness ==
  /\ pc = "exited" /\ key = "esc" /\ err = "none"
  /\ nkeys = 2 /\ pending = 2
  /\ Len(human_queue) = 2 /\ Len(ai_queue) = 2 /\ ai_read = 1

\* ------------------------------------------------------------------ C17
\* C17: with no wheel event in the run, a chat pane that starts at the bottom is at
\* maxOffset after every render.
C17_PinnedAfterRender ==
  pc = "poll" => chat_offset = MaxOffset(ChatLines, ChatRows)


\* ----------------------------------------------------------------- C18
\* a cell of the chat pane's rectangle, and of the sidebar's (its full height)
InChatRect(mx, my) ==
  /\ chat_win.row <= my /\ my < chat_win.row + chat_win.h
  /\ chat_win.col <= mx /\ mx < chat_win.col + chat_win.w

InSidebarRect(mx, my) ==
  /\ sidebar_win.row <= my /\ my < sidebar_win.row + sidebar_win.h
  /\ sidebar_win.col <= mx /\ mx < sidebar_win.col + sidebar_win.w

\* the offset a wheel event asks for: 3 lines up or down, clamped to [0, max]
Scrolled(b, offset, max) ==
  IF b = "wheel_up" THEN Min(max, Max(0, offset - 3)) ELSE Min(max, Max(0, offset + 3))

\* C18: a wheel event at any cell of the chat pane's rectangle moves the chat offset by 3
\* lines clamped to [0, maxOffset] and leaves the sidebar offset alone; at any cell of the
\* sidebar's rectangle (its full height) it moves the sidebar offset by 3 clamped to the
\* sidebar's [0, maxOffset] and leaves the chat offset alone.
C18_WheelByPane ==
  [][\A mx \in MouseCols, my \in WheelRows, b \in {"wheel_up", "wheel_down"} :
       EventStep /\ MouseWheel(mx, my, b) =>
         /\ InChatRect(mx, my) =>
              /\ chat_offset' = Scrolled(b, chat_offset, MaxOffset(ChatLines, ChatRows))
              /\ sidebar_offset' = sidebar_offset
         /\ InSidebarRect(mx, my) =>
              /\ sidebar_offset' = Scrolled(b, sidebar_offset,
                                            MaxOffset(SidebarLines, SidebarRows))
              /\ chat_offset' = chat_offset]_vars


\* ----------------------------------------------------------------- C19
\* the tool-call records when the running drain began
ToolCallsBeforeDrain == AllRecords(SubSeq(ai_queue, 1, ai_read - drained))

\* C19: a drain that appends tool-call records keeps a sidebar that was at its maxOffset
\* at the new maxOffset, and leaves a lower sidebar offset unchanged.
C19_SidebarAutoscroll ==
  /\ [][InDrainLoop => sidebar_offset' = sidebar_offset]_vars
  /\ [][DrainEndStep /\ drained >= 1 =>
          PinRule(sidebar_offset,
                  MaxOffset(Len(flatten_sidebar(ToolCallsBeforeDrain)), SidebarRows),
                  sidebar_offset',
                  MaxOffset(Len(flatten_sidebar(tool_calls')), height' - 2))]_vars


\* ----------------------------------------------------------------- C20
\* a human message was sent and the agent has not put its answer yet
ResponsePending == Len(ai_queue) < Len(human_queue)

\* the view process has neither exited nor died
ViewRunning == pc \notin {"exited", "crashed"}

\* C20: every get() of the view on the agent's queue finds a payload there, and while a
\* response is pending a running view always has a next step: it never waits for the agent.
C20_NeverBlocks ==
  /\ pc = "drain_get" => ai_read < Len(ai_queue) /\ ENABLED DrainGet
  /\ ResponsePending /\ pc = "poll" => ENABLED Poll
  /\ ResponsePending /\ pc = "dispatch" =>
       /\ ENABLED KeyBackspace
       /\ ENABLED MouseWheel(0, 0, "wheel_up")
       /\ ENABLED MouseWheel(chat_w, 0, "wheel_up")

\* the answer to the second message is still being computed; since that message was sent
\* the user has typed a character, now in the buffer, and the last event of the batch
\* the view has just taken was a mouse event that leaves the chat pane 3 lines above the
\* bottom
C20_Witness ==
  /\ Len(human_queue) = 2 /\ Len(ai_queue) = 1 /\ pres_pc = "reply"
  /\ pc = "drain" /\ nkeys = 2 /\ key = "mouse"
  /\ input_buffer # <<>> /\ input_buffer[1] # " "
  /\ chat_offset = MaxOffset(ChatLines, ChatRows) - 3


\* ----------------------------------------------------------------- C21
\* _draw_input: the buffer wrapped at inner_w = self.width - 3
InputLines(buf) == WrapText(buf, width - 3)

\* python's lines[-visible:]; -0 is 0, so visible = 0 keeps every line
LastLines(lines, visible) ==
  IF visible > 0 THEN SubSeq(lines, Max(1, Len(lines) - visible + 1), Len(lines))
  ELSE SubSeq(lines, 1 - visible, Len(lines))

\* display = lines[-visible:] with visible = self.input_h - 2
InputDisplay(buf, ih) == LastLines(InputLines(buf), ih - 2)

\* text = prefix + line
InputText(idx, line) == (IF idx = 1 THEN << ">", " " >> ELSE << " ", " " >>) \o line

\* win.addstr(idx, 1, text) in a window ncols wide: at the right edge the text goes on
\* in column 0 of the next row; the rows of the window it writes
AddstrRows(idx, text, ncols) ==
  { (idx * ncols + 1 + k) \div ncols : k \in 0..(Len(text) - 1) }

\* the rows of the input window that _draw_input writes text on
InputRowsWritten(buf, ih) ==
  LET display == InputDisplay(buf, ih) IN
  UNION { AddstrRows(idx, InputText(idx, display[idx]), input_win.w) :
          idx \in 1..Len(display) }

\* t ends with s
IsSuffix(s, t) == Len(s) <= Len(t) /\ SubSeq(t, Len(t) - Len(s) + 1, Len(t)) = s

\* C21: after every render the input pane shows at most input_h - 2 lines, the last
\* lines of the wrapped buffer, written on the pane's interior rows 1 .. input_h - 2
\* only; and the render leaves the input buffer unchanged.
C21_InputWindow ==
  /\ [](pc = "poll" =>
          /\ Len(InputDisplay(input_buffer, input_h)) <= input_h - 2
          /\ IsSuffix(InputDisplay(input_buffer, input_h), InputLines(input_buffer))
          /\ InputRowsWritten(input_buffer, input_h) \subseteq 1..(input_h - 2))
  /\ [][pc = "draw" => input_buffer' = input_buffer]_vars


\* ----------------------------------------------------------------- C22
\* the presenter puts a payload on the agent's queue
PutStep == pres_pc = "reply" /\ pres_pc' = "get"

\* the presenter takes a message from the human queue
TakeStep == pres_pc = "get" /\ pres_pc' = "reply"

\* the view takes a payload and appends its text
AppendAiStep == pc = "drain_get" /\ pc' = "drain_loop"

\* C22: the presenter takes the human messages in the order they were sent and puts one
\* payload per message taken, the view appends the payloads' texts in the order they were
\* put, so the k-th AI message of the Message Store answers the k-th human message sent,
\* and the store never holds more AI messages than human messages.
C22_Pairing ==
  /\ [](/\ TextsOf(messages, "human") = [k \in 1..Len(human_queue) |-> human_queue[k]]
        /\ Len(TextsOf(messages, "ai")) <= Len(TextsOf(messages, "human"))
        /\ Len(TextsOf(messages, "ai")) = ai_read
        /\ ai_read <= Len(ai_queue)
        /\ Len(ai_queue) <= human_read
        /\ human_read <= Len(human_queue)
        /\ TextsOf(messages, "ai") = [k \in 1..ai_read |-> ai_queue[k][2]])
  /\ [](pres_pc = "reply" =>
          human_read = Len(ai_queue) + 1 /\ human_msg = human_queue[human_read])
  /\ [](pres_pc = "get" => human_read = Len(ai_queue))
  /\ [][TakeStep => human_read' = human_read + 1 /\ human_msg' = human_queue[human_read']]_vars
  /\ [][PutStep => /\ Len(ai_queue') = Len(ai_queue) + 1
                   /\ IsPrefix(ai_queue, ai_queue')
                   /\ human_msg = human_queue[Len(ai_queue')]]_vars
  /\ [][AppendAiStep => /\ ai_read' = ai_read + 1
                        /\ messages' = Append(messages, << ai_queue[ai_read'][2], "ai" >>)]_vars

\* two different messages were sent before the agent answered the first, and both
\* answers are in the store, after both messages
C22_Witness ==
  /\ Len(messages) = 4 /\ ai_read = 2 /\ pres_pc = "get"
  /\ messages[1][2] = "human" /\ messages[2][2] = "human"
  /\ messages[3][2] = "ai" /\ messages[4][2] = "ai"
  /\ messages[1][1] # messages[2][1]
  /\ messages[3][1] # messages[4][1]


\* ----------------------------------------------------------------- C23
\* the positions of the view in _main
PcValues == {"drain", "drain_loop", "drain_get", "draw", "debug", "poll", "dispatch",
             "exited", "crashed"}

\* the view moves on in its loop: it is running, not waiting in get() on an empty queue,
\* and its position or the number of events left to handle changes
ViewTick ==
  /\ ViewRunning
  /\ pc = "drain_get" => ai_read < Len(ai_queue)
  /\ pc = "dispatch" => pending > 0
  /\ \E p \in PcValues, n \in 0..MaxBatch : pc' = p /\ pending' = n

\* both processes are scheduled: the view goes on with its loop whenever it can, the
\* presenter takes a waiting message, and the agent's call returns
Fairness ==
  /\ WF_<< pc, pending >>(ViewTick)
  /\ WF_vars(PresenterGet)
  /\ WF_vars(PresenterPut)

SpecFair == Init /\ [][Next]_vars /\ Fairness

\* the k-th human message was sent; the k-th AI message is in the Message Store
Sent(k) == Len(human_queue) >= k
Answered(k) == Len(TextsOf(messages, "ai")) >= k

\* C23: with both processes scheduled and the agent's calls returning, every human
\* message sent is eventually followed by its AI message in the Message Store, unless the
\* user quits the view.
C23_Delivery ==
  \A k \in 1..MaxSends : [](Sent(k) => <>(Answered(k) \/ pc = "exited"))

====
